---- MODULE Spec2Model ----
(***************************************************************************)
(* Model of sentinel/framework.py: the Munger byte transforms (xor,        *)
(* multi_byte_xor, rolling_xor, multi_byte_rolling_xor, rotating_xor,      *)
(* multi_byte_rotating_xor, munge, unmunge) and the Random generators      *)
(* (bytes, sample, hex, base64).                                           *)
(*                                                                         *)
(* A byte string is a sequence of integers in 0..255.  A Python object     *)
(* passed by the caller is a value plus a flag telling whether it is a     *)
(* bytearray (mutable, updated in place) or a bytes object (immutable,     *)
(* copied by the transform before it writes).                              *)
(***************************************************************************)
EXTENDS Integers, Sequences, FiniteSets, TLC

\* ---------------------------------------------------------------- bounds
\* Longest data buffer handed to a transform.
MaxLen == 3
\* Longest multi-byte key handed to a transform.
MaxKeyLen == 2
\* Longest payload handed to munge (longer than the 4-byte key, so the key wraps).
MaxPayloadLen == 5
\* Longest blob handed directly to unmunge.
MaxBlobLen == 5
\* Largest length requested from Random.bytes / sample / hex.
MaxRandLen == 3
\* Largest length requested from Random.base64.
MaxB64Len == 10
\* Longest alphabet handed to Random.sample.
MaxAlphaLen == 2

\* Byte values the inputs and the entropy source are drawn from.
ByteVals == {0, 7, 254}
\* All values of a byte.
Byte == 0..255
\* Integers offered as a single-byte key: in range, just outside, far outside.
IntKeys == {-1, 0, 7, 255, 256, 300}
\* Rotation widths offered to rotating_xor (3 is the default).
BitsVals == {1, 3, 7}

\* All sequences over S of length lo..hi.
SeqsOf(S, lo, hi) == UNION {[1..n -> S] : n \in lo..hi}

\* ------------------------------------------------------- integer helpers
RECURSIVE Xor(_, _)
\* Python's a ^ b on non-negative integers.
Xor(a, b) ==
    IF a = 0 THEN b
    ELSE IF b = 0 THEN a
    ELSE (((a % 2) + (b % 2)) % 2) + 2 * Xor(a \div 2, b \div 2)

RECURSIVE Pow2(_)
Pow2(n) == IF n = 0 THEN 1 ELSE 2 * Pow2(n - 1)

\* Faulty variant: rotates left instead of right.
rotate_left(v, b) == ((v * Pow2(b)) % 256) + (v \div Pow2(8 - b))

\* (key >> bits) | (key << (8 - bits) & 0xFF): the two parts share no bit when
\* key is an 8-bit value and 0 < bits < 8, so the OR is a sum.
rotate(v, b) == (v \div Pow2(b)) + ((v * Pow2(8 - b)) % 256)

\* ------------------------------------------------------------ results
Ok(v) == [kind |-> "ok", val |-> v]
Raise(e) == [kind |-> e, val |-> <<>>]
NoResult == [kind |-> "none", val |-> <<>>]

\* What a transform leaves behind: its result, and the contents of the
\* caller's data object and key object after the call.
Out(r, d, k) == [res |-> r, data |-> d, key |-> k]

\* ------------------------------------------------------------ Munger.xor
xor(data, key) ==
    IF Len(data) = 0 THEN Raise("MungerException")
    ELSE IF key > 256 \/ key < 0 THEN Raise("MungerException")
    ELSE LET table == [i \in Byte |-> Xor(key, i)]
         IN  IF \E i \in Byte : table[i] \notin Byte
             THEN Raise("ValueError")
             ELSE Ok([i \in 1..Len(data) |-> table[data[i]]])

\* --------------------------------------------------- Munger.multi_byte_xor
RECURSIVE multi_byte_xor_loop(_, _, _, _)
\* The for loop; i and k are 1-based here (k wraps to the first key byte).
multi_byte_xor_loop(data, key, i, k) ==
    IF i > Len(data) THEN data
    ELSE multi_byte_xor_loop([data EXCEPT ![i] = Xor(data[i], key[k])], key,
                             i + 1, IF k = Len(key) THEN 1 ELSE k + 1)

multi_byte_xor(data, dmut, key) ==
    IF Len(data) = 0 THEN Out(Raise("MungerException"), data, key)
    ELSE IF Len(key) = 0 THEN Out(Raise("MungerException"), data, key)
    ELSE LET d == multi_byte_xor_loop(data, key, 1, 1)
         IN  Out(Ok(d), IF dmut THEN d ELSE data, key)

\* ------------------------------------------------------ Munger.rolling_xor
RECURSIVE rolling_xor_loop(_, _, _)
\* k is <<>> while the local name k is unbound and <<v>> once assigned.
rolling_xor_loop(data, k, i) ==
    IF i > Len(data) THEN Ok(data)
    ELSE IF k = <<>> THEN Raise("UnboundLocalError")
    ELSE rolling_xor_loop([data EXCEPT ![i] = Xor(data[i], k[1])], <<data[i]>>, i + 1)

rolling_xor(data, dmut, key) ==
    IF Len(data) = 0 THEN Out(Raise("MungerException"), data, <<>>)
    ELSE IF key < 0 \/ key > 255 THEN Out(Raise("MungerException"), data, <<>>)
    ELSE LET r == rolling_xor_loop(data, <<>>, 1)
         IN  Out(r, IF dmut /\ r.kind = "ok" THEN r.val ELSE data, <<>>)

\* ------------------------------------------- Munger.multi_byte_rolling_xor
RECURSIVE multi_byte_rolling_xor_loop(_, _, _, _)
multi_byte_rolling_xor_loop(data, key, i, k) ==
    IF i > Len(data) THEN [data |-> data, key |-> key]
    ELSE multi_byte_rolling_xor_loop([data EXCEPT ![i] = Xor(data[i], key[k])],
                                     [key EXCEPT ![k] = data[i]],
                                     i + 1, IF k = Len(key) THEN 1 ELSE k + 1)

multi_byte_rolling_xor(data, dmut, key, kmut) ==
    IF Len(data) = 0 THEN Out(Raise("MungerException"), data, key)
    ELSE IF Len(key) = 0 THEN Out(Raise("MungerException"), data, key)
    ELSE LET r == multi_byte_rolling_xor_loop(data, key, 1, 1)
         IN  Out(Ok(r.data), IF dmut THEN r.data ELSE data,
                 IF kmut THEN r.key ELSE key)

\* ----------------------------------------------------- Munger.rotating_xor
RECURSIVE rotating_xor_loop(_, _, _, _)
rotating_xor_loop(data, key, bits, i) ==
    IF i > Len(data) THEN data
    ELSE rotating_xor_loop([data EXCEPT ![i] = Xor(data[i], key)],
                           rotate(key, bits), bits, i + 1)

rotating_xor(data, dmut, key, bits) ==
    IF Len(data) = 0 THEN Out(Raise("MungerException"), data, <<>>)
    ELSE IF key < 0 \/ key > 255 THEN Out(Raise("MungerException"), data, <<>>)
    ELSE LET d == rotating_xor_loop(data, key, bits, 1)
         IN  Out(Ok(d), IF dmut THEN d ELSE data, <<>>)

\* ------------------------------------------ Munger.multi_byte_rotating_xor
RECURSIVE multi_byte_rotating_xor_loop(_, _, _, _, _)
multi_byte_rotating_xor_loop(data, key, bits, i, k) ==
    IF i > Len(data) THEN [data |-> data, key |-> key]
    ELSE multi_byte_rotating_xor_loop([data EXCEPT ![i] = Xor(data[i], key[k])],
                                      [key EXCEPT ![k] = rotate(key[k], bits)],
                                      bits, i + 1,
                                      IF k = Len(key) THEN 1 ELSE k + 1)

multi_byte_rotating_xor(data, dmut, key, kmut, bits) ==
    IF Len(data) = 0 THEN Out(Raise("MungerException"), data, key)
    ELSE IF Len(key) = 0 THEN Out(Raise("MungerException"), data, key)
    ELSE LET r == multi_byte_rotating_xor_loop(data, key, bits, 1, 1)
         IN  Out(Ok(r.data), IF dmut THEN r.data ELSE data,
                 IF kmut THEN r.key ELSE key)

\* ------------------------------------------------- Munger.munge / unmunge
\* Number of key bytes munge draws and unmunge splits off.
KeyLen == 4
\* Default of the bits parameter.
DefaultBits == 3

\* data[:n] and data[n:] of Python.
Prefix(s, n) == SubSeq(s, 1, IF Len(s) < n THEN Len(s) ELSE n)
Suffix(s, n) == SubSeq(s, n + 1, Len(s))

\* Faulty variant: the key is rotated in place and the rotated key is what gets embedded.
munge_rotated_key(data, dmut, key) ==
    LET r == multi_byte_rotating_xor(data, dmut, key, TRUE, DefaultBits)
    IN  IF r.res.kind = "ok" THEN Out(Ok(r.key \o r.res.val), r.data, key)
        ELSE Out(r.res, r.data, key)

\* key is what os.urandom(4) returned: a bytes object, so the transform
\* rotates its own copy and the prefix of the result is the key as drawn.
munge(data, dmut, key) ==
    LET r == multi_byte_rotating_xor(data, dmut, key, FALSE, DefaultBits)
    IN  IF r.res.kind = "ok" THEN Out(Ok(key \o r.res.val), r.data, key)
        ELSE Out(r.res, r.data, key)

\* Faulty variant: splits the blob one byte early.
unmunge_short_key(data, dmut) ==
    LET r == multi_byte_rotating_xor(Suffix(data, KeyLen - 1), dmut,
                                     Prefix(data, KeyLen - 1), dmut, DefaultBits)
    IN  Out(r.res, data, <<>>)

\* Both slices are fresh objects, so the caller's blob is never written.
unmunge(data, dmut) ==
    LET r == multi_byte_rotating_xor(Suffix(data, KeyLen), dmut,
                                     Prefix(data, KeyLen), dmut, DefaultBits)
    IN  Out(r.res, data, <<>>)

\* ------------------------------------------------------------ Random
Range(s) == {s[i] : i \in 1..Len(s)}

RECURSIVE SortedSeq(_)
SortedSeq(S) ==
    IF S = {} THEN <<>>
    ELSE LET m == CHOOSE x \in S : \A y \in S : x <= y
         IN  <<m>> \o SortedSeq(S \ {m})

Reverse(s) == [i \in 1..Len(s) |-> s[Len(s) + 1 - i]]
Rotate(s, r) == [i \in 1..Len(s) |-> s[((i - 1 + r) % Len(s)) + 1]]

\* bytearray(set(sequence)): the iteration order of a set is unspecified.  The
\* orders taken are the rotations of the ascending order and of the descending
\* order (every order, for a set of up to three bytes).
Orders(S) ==
    IF S = {} THEN {<<>>}
    ELSE LET up == SortedSeq(S)
         IN  {Rotate(up, r) : r \in 0..(Cardinality(S) - 1)}
             \cup {Rotate(Reverse(up), r) : r \in 0..(Cardinality(S) - 1)}

\* bytes.translate(None, avoid): delete every byte that is in avoid.
translate_delete(chunk, avoid) == SelectSeq(chunk, LAMBDA b : b \notin avoid)

\* sequence.find(a), 1-based; sequence.pop(i).
Find(s, a) == CHOOSE i \in 1..Len(s) : s[i] = a /\ \A j \in 1..(i - 1) : s[j] # a
Pop(s, i) == SubSeq(s, 1, i - 1) \o SubSeq(s, i + 1, Len(s))

RECURSIVE pop_avoid(_, _)
\* for a in avoid: if a in sequence: sequence.pop(sequence.find(a))
pop_avoid(sequence, avoid) ==
    IF avoid = {} THEN sequence
    ELSE LET a == CHOOSE x \in avoid : TRUE
         IN  pop_avoid(IF a \in Range(sequence) THEN Pop(sequence, Find(sequence, a))
                       ELSE sequence,
                       avoid \ {a})

\* Faulty variant: the exclusion set is not removed from the alphabet.
sample_keeping_avoid(order, avoid, urandom) ==
    IF Len(urandom) = 0 THEN Ok(<<>>)
    ELSE IF Len(order) = 0 THEN Raise("ZeroDivisionError")
    ELSE Ok([i \in 1..Len(urandom) |-> order[(urandom[i] % Len(order)) + 1]])

\* order is bytearray(set(sequence)); urandom is what os.urandom(length)
\* returned.  The list comprehension evaluates x % len(sequence) once per
\* entropy byte, so with no entropy byte nothing is divided.
sample(order, avoid, urandom) ==
    LET sequence == pop_avoid(order, avoid)
    IN  IF Len(urandom) = 0 THEN Ok(<<>>)
        ELSE IF Len(sequence) = 0 THEN Raise("ZeroDivisionError")
        ELSE Ok([i \in 1..Len(urandom) |-> sequence[(urandom[i] % Len(sequence)) + 1]])

\* bytes(range(lo, hi))
ByteRange(lo, hi) == [i \in 1..(hi - lo) |-> lo + i - 1]

HexAlphabet == ByteRange(48, 58) \o ByteRange(65, 71)
Base64Alphabet ==
    ByteRange(48, 58) \o ByteRange(65, 91) \o ByteRange(97, 123) \o <<43, 47>>

\* Faulty variant: an odd length is not rounded up.
hex_length_odd_kept(length, decodable) ==
    IF decodable /\ length < 2 THEN 2 ELSE length

\* The length Random.hex samples for a requested length.
hex_length(length, decodable) ==
    IF decodable
    THEN LET l2 == IF length < 2 THEN 2 ELSE length
         IN  IF l2 % 2 # 0 THEN l2 + 1 ELSE l2
    ELSE length

\* Faulty variant: the product is truncated instead of rounded up.
base64_nbytes_floor(length) == (5 * length) \div 6

\* Faulty variant: three bytes for four characters, the ratio of the encoding.
base64_nbytes_three_quarters(length) == (3 * length + 3) \div 4

\* math.ceil(float(length) * (5.0/6.0)).  For the lengths of the model (and
\* every length below 200000) the double product rounds to the same integer
\* as the exact ceiling of 5*length/6.
base64_nbytes(length) == (5 * length + 5) \div 6

\* The 64 characters of standard base64, by 6-bit value.
B64Char(v) ==
    IF v < 26 THEN 65 + v
    ELSE IF v < 52 THEN 97 + (v - 26)
    ELSE IF v < 62 THEN 48 + (v - 52)
    ELSE IF v = 62 THEN 43 ELSE 47

RECURSIVE b64_groups(_)
\* Three bytes become four characters; a last group of one or two bytes is
\* padded with '='.
b64_groups(s) ==
    IF Len(s) = 0 THEN <<>>
    ELSE IF Len(s) = 1 THEN
        LET n == s[1] * 65536
        IN  <<B64Char(n \div 262144), B64Char((n \div 4096) % 64), 61, 61>>
    ELSE IF Len(s) = 2 THEN
        LET n == s[1] * 65536 + s[2] * 256
        IN  <<B64Char(n \div 262144), B64Char((n \div 4096) % 64),
              B64Char((n \div 64) % 64), 61>>
    ELSE
        LET n == s[1] * 65536 + s[2] * 256 + s[3]
        IN  <<B64Char(n \div 262144), B64Char((n \div 4096) % 64),
              B64Char((n \div 64) % 64), B64Char(n % 64)>>
            \o b64_groups(SubSeq(s, 4, Len(s)))

\* binascii.b2a_base64: the padded encoding followed by a newline.
b2a_base64(s) == b64_groups(s) \o <<10>>

\* ------------------------------------------------------------ state
VARIABLES
    pc,        \* "idle", or "bytes" while Random.bytes is in its while loop
    op,        \* the operation called last (or in progress)
    arg,       \* its arguments, as the caller passed them
    data,      \* contents of the caller's data object after the call
    key,       \* contents of the caller's key object after the call
    result,    \* what the call returned or raised
    roundtrip, \* TRUE when unmunge was given the value munge just returned
    x,         \* the payload of that munge call
    frame,     \* locals of Random.bytes: length, avoid, ret
    urandom,   \* what os.urandom returned last
    order,     \* the order bytearray(set(sequence)) came out in
    threads    \* the locals of each thread running a munge / unmunge round trip

vars == <<pc, op, arg, data, key, result, roundtrip, x, frame, urandom, order,
          threads>>

\* Arguments not used by an operation keep these values.
NoArg ==
    [data |-> <<>>, dmut |-> FALSE, key |-> <<>>, kmut |-> FALSE, ikey |-> 0,
     bits |-> DefaultBits, sequence |-> <<>>, length |-> 0, avoid |-> {},
     decodable |-> FALSE]

NoFrame == [length |-> 0, avoid |-> {}, ret |-> <<>>]

DataVals == SeqsOf(ByteVals, 0, MaxLen)
KeyVals == SeqsOf(ByteVals, 0, MaxKeyLen)
\* Exclusion sets offered to Random.bytes and Random.sample.
AvoidSets == {{}, {7}, {0, 254}, ByteVals, Byte}
\* Exclusion sets offered to Random.hex and Random.base64.
PresetAvoidSets == {{}, {48, 65}}

Init ==
    /\ pc = "idle"
    /\ op = "none"
    /\ arg = NoArg
    /\ data = <<>>
    /\ key = <<>>
    /\ result = NoResult
    /\ roundtrip = FALSE
    /\ x = <<>>
    /\ frame = NoFrame
    /\ urandom = <<>>
    /\ order = <<>>
    /\ threads = <<>>

\* No component holds state across calls, so one call from the state after
\* construction stands for a call at any time: the caller has made no call yet.
Fresh == pc = "idle" /\ op = "none"

\* A Munger call made by the caller: the whole method runs in one step.
Returned(name, a, out, u) ==
    /\ op' = name
    /\ arg' = a
    /\ data' = out.data
    /\ key' = out.key
    /\ result' = out.res
    /\ roundtrip' = FALSE
    /\ x' = <<>>
    /\ UNCHANGED <<pc, frame, threads>>
    /\ urandom' = u
    /\ order' = <<>>

Call_xor ==
    /\ Fresh
    /\ \E d \in DataVals, dm \in BOOLEAN, k \in IntKeys :
        Returned("xor", [NoArg EXCEPT !.data = d, !.dmut = dm, !.ikey = k],
                 Out(xor(d, k), d, <<>>), <<>>)

Call_multi_byte_xor ==
    /\ Fresh
    /\ \E d \in DataVals, dm \in BOOLEAN, k \in KeyVals, km \in BOOLEAN :
        Returned("multi_byte_xor",
                 [NoArg EXCEPT !.data = d, !.dmut = dm, !.key = k, !.kmut = km],
                 multi_byte_xor(d, dm, k), <<>>)

Call_rolling_xor ==
    /\ Fresh
    /\ \E d \in DataVals, dm \in BOOLEAN, k \in IntKeys :
        Returned("rolling_xor", [NoArg EXCEPT !.data = d, !.dmut = dm, !.ikey = k],
                 rolling_xor(d, dm, k), <<>>)

Call_multi_byte_rolling_xor ==
    /\ Fresh
    /\ \E d \in DataVals, dm \in BOOLEAN, k \in KeyVals, km \in BOOLEAN :
        Returned("multi_byte_rolling_xor",
                 [NoArg EXCEPT !.data = d, !.dmut = dm, !.key = k, !.kmut = km],
                 multi_byte_rolling_xor(d, dm, k, km), <<>>)

Call_rotating_xor ==
    /\ Fresh
    /\ \E d \in DataVals, dm \in BOOLEAN, k \in IntKeys, b \in BitsVals :
        Returned("rotating_xor",
                 [NoArg EXCEPT !.data = d, !.dmut = dm, !.ikey = k, !.bits = b],
                 rotating_xor(d, dm, k, b), <<>>)

Call_multi_byte_rotating_xor ==
    /\ Fresh
    /\ \E d \in DataVals, dm \in BOOLEAN, k \in KeyVals, km \in BOOLEAN :
        Returned("multi_byte_rotating_xor",
                 [NoArg EXCEPT !.data = d, !.dmut = dm, !.key = k, !.kmut = km],
                 multi_byte_rotating_xor(d, dm, k, km, DefaultBits), <<>>)

\* A second multi_byte_rotating_xor call, given the bytearray the first call
\* returned and the same key object.  When the caller's data was a bytearray
\* the returned object is that same object, so it is written again.
Call_multi_byte_rotating_xor_again ==
    /\ pc = "idle"
    /\ op = "multi_byte_rotating_xor"
    /\ result.kind = "ok"
    /\ LET out == multi_byte_rotating_xor(result.val, TRUE, key, arg.kmut, DefaultBits)
       IN  /\ op' = "multi_byte_rotating_xor_again"
           /\ data' = IF arg.dmut THEN out.data ELSE data
           /\ key' = out.key
           /\ result' = out.res
           /\ x' = arg.data
           /\ UNCHANGED <<pc, arg, roundtrip, frame, urandom, order, threads>>

\* munge(data): the key is whatever os.urandom(4) returns.
Call_munge ==
    /\ Fresh
    /\ \E d \in SeqsOf(ByteVals, 0, MaxPayloadLen), dm \in BOOLEAN,
          k \in [1..KeyLen -> ByteVals] :
        Returned("munge", [NoArg EXCEPT !.data = d, !.dmut = dm], munge(d, dm, k), k)

\* unmunge(blob) on the value the preceding munge returned (a bytes object).
Call_unmunge_munged ==
    /\ pc = "idle"
    /\ op = "munge"
    /\ result.kind = "ok"
    /\ LET out == unmunge(result.val, FALSE)
       IN  /\ op' = "unmunge"
           /\ arg' = [NoArg EXCEPT !.data = result.val]
           /\ data' = out.data
           /\ key' = out.key
           /\ result' = out.res
           /\ roundtrip' = TRUE
           /\ x' = arg.data
           /\ UNCHANGED <<pc, frame, urandom, order, threads>>

\* unmunge(blob) on any blob.
Call_unmunge ==
    /\ Fresh
    /\ \E d \in SeqsOf(ByteVals, 0, MaxBlobLen), dm \in BOOLEAN :
        Returned("unmunge", [NoArg EXCEPT !.data = d, !.dmut = dm], unmunge(d, dm), <<>>)

\* A Random call that returns without entering Random.bytes.
Sampled(name, a, ord, u, res) ==
    /\ op' = name
    /\ arg' = a
    /\ order' = ord
    /\ urandom' = u
    /\ result' = res
    /\ data' = <<>>
    /\ key' = <<>>
    /\ roundtrip' = FALSE
    /\ x' = <<>>
    /\ UNCHANGED <<pc, frame, threads>>

Call_sample ==
    /\ Fresh
    /\ \E s \in SeqsOf(ByteVals, 0, MaxAlphaLen), avoid \in AvoidSets \ {Byte},
          length \in 0..MaxRandLen :
        \E ord \in Orders(Range(s)), u \in [1..length -> ByteVals] :
            Sampled("sample",
                    [NoArg EXCEPT !.sequence = s, !.length = length, !.avoid = avoid],
                    ord, u, sample(ord, avoid, u))

Call_hex ==
    /\ Fresh
    /\ \E length \in 0..MaxRandLen, avoid \in PresetAvoidSets, decodable \in BOOLEAN :
        \E ord \in Orders(Range(HexAlphabet)),
           u \in [1..hex_length(length, decodable) -> ByteVals] :
            Sampled("hex",
                    [NoArg EXCEPT !.sequence = HexAlphabet, !.length = length,
                                  !.avoid = avoid, !.decodable = decodable],
                    ord, u, sample(ord, avoid, u))

\* base64(length, avoid, decodable=False): sampled from the base64 alphabet.
Call_base64_sampled ==
    /\ Fresh
    /\ \E length \in 0..MaxRandLen, avoid \in PresetAvoidSets :
        \E ord \in Orders(Range(Base64Alphabet)), u \in [1..length -> ByteVals] :
            Sampled("base64",
                    [NoArg EXCEPT !.sequence = Base64Alphabet, !.length = length,
                                  !.avoid = avoid],
                    ord, u, sample(ord, avoid, u))

\* Entering Random.bytes(length, avoid): ret = b''.
EnterBytes(name, a, length, avoid) ==
    /\ op' = name
    /\ arg' = a
    /\ frame' = [length |-> length, avoid |-> avoid, ret |-> <<>>]
    /\ pc' = "bytes"
    /\ result' = NoResult
    /\ data' = <<>>
    /\ key' = <<>>
    /\ roundtrip' = FALSE
    /\ x' = <<>>
    /\ urandom' = <<>>
    /\ order' = <<>>
    /\ UNCHANGED threads

Call_bytes ==
    /\ Fresh
    /\ \E length \in 0..MaxRandLen, avoid \in AvoidSets :
        EnterBytes("bytes", [NoArg EXCEPT !.length = length, !.avoid = avoid],
                   length, avoid)

\* base64(length, avoid, decodable=True): self.bytes(ceil(length * 5/6)); the
\* avoid argument is not passed on.
Call_base64_decodable ==
    /\ Fresh
    /\ \E length \in 0..MaxB64Len, avoid \in PresetAvoidSets :
        EnterBytes("base64",
                   [NoArg EXCEPT !.length = length, !.avoid = avoid,
                                 !.decodable = TRUE],
                   base64_nbytes(length), {})

\* One turn of the while loop of Random.bytes.
bytes_iter ==
    /\ pc = "bytes"
    /\ Len(frame.ret) # frame.length
    /\ \E chunk \in [1..(frame.length - Len(frame.ret)) -> ByteVals] :
        /\ urandom' = chunk
        /\ frame' = [frame EXCEPT !.ret = @ \o translate_delete(chunk, frame.avoid)]
    /\ UNCHANGED <<pc, op, arg, data, key, result, roundtrip, x, order, threads>>

\* The loop condition fails: Random.bytes returns ret, and base64 encodes it.
bytes_return ==
    /\ pc = "bytes"
    /\ Len(frame.ret) = frame.length
    /\ pc' = "idle"
    /\ result' = IF op = "base64" THEN Ok(b2a_base64(frame.ret)) ELSE Ok(frame.ret)
    /\ UNCHANGED <<op, arg, data, key, roundtrip, x, frame, urandom, order, threads>>

Next ==
    \/ Call_xor
    \/ Call_multi_byte_xor
    \/ Call_rolling_xor
    \/ Call_multi_byte_rolling_xor
    \/ Call_rotating_xor
    \/ Call_multi_byte_rotating_xor
    \/ Call_multi_byte_rotating_xor_again
    \/ Call_munge
    \/ Call_unmunge_munged
    \/ Call_unmunge
    \/ Call_sample
    \/ Call_hex
    \/ Call_base64_sampled
    \/ Call_bytes
    \/ Call_base64_decodable
    \/ bytes_iter
    \/ bytes_return

Spec == Init /\ [][Next]_vars

\* The interpreter keeps running a loop that can take another turn.
FairSpec == Spec /\ WF_vars(bytes_iter) /\ WF_vars(bytes_return)

\* ------------------------------------------- concurrent round trips
\* Threads sharing the one Munger instance ServiceManager.default registers.
\* Munger has no attributes: everything a call touches is a local of the call.
NThreads == 2
\* Longest payload a thread munges.
MaxThreadLen == 2

Threads == 1..NThreads
\* Thread t's payload starts with the byte t, so the payloads are distinct.
ThreadPayloads(t) == {<<t>> \o tail : tail \in SeqsOf({254}, 0, MaxThreadLen - 1)}
\* Keys os.urandom(4) hands to the threads.
ThreadKeys == {<<7, 0, 254, 7>>, <<254, 7, 0, 0>>}

\* pc: "start", "munge_loop", "munged", "unmunge_loop", "done", "raised".
\* x is the payload, key0 the key munge drew, data / key / i / k the locals of
\* multi_byte_rotating_xor, blob what munge returned, out what unmunge returned.
NewThread ==
    [pc |-> "start", x |-> <<>>, key0 |-> <<>>, data |-> <<>>, key |-> <<>>,
     i |-> 1, k |-> 1, blob |-> <<>>, out |-> <<>>]

InLoop(f) == f.pc \in {"munge_loop", "unmunge_loop"}

\* Faulty variant: the working key is one object kept on the shared instance,
\* so entering the transform replaces the key of every call in progress.
enter_transform_shared_key(fs, t, d, k, looppc) ==
    IF Len(d) = 0 \/ Len(k) = 0 THEN [fs EXCEPT ![t].pc = "raised"]
    ELSE [u \in DOMAIN fs |->
            IF u = t
            THEN [fs[u] EXCEPT !.data = d, !.key = k, !.i = 1, !.k = 1,
                               !.pc = looppc]
            ELSE IF InLoop(fs[u]) THEN [fs[u] EXCEPT !.key = k] ELSE fs[u]]

\* multi_byte_rotating_xor up to its for loop, run by thread t: the checks,
\* then data = bytearray(data), key = bytearray(key), k = 0, all locals of t.
enter_transform(fs, t, d, k, looppc) ==
    IF Len(d) = 0 \/ Len(k) = 0 THEN [fs EXCEPT ![t].pc = "raised"]
    ELSE [fs EXCEPT ![t] = [@ EXCEPT !.data = d, !.key = k, !.i = 1, !.k = 1,
                                     !.pc = looppc]]

\* One turn of the for loop of multi_byte_rotating_xor on the locals f.
loop_turn(f) ==
    [f EXCEPT !.data[f.i] = Xor(f.data[f.i], f.key[f.k]),
              !.key[f.k] = rotate(f.key[f.k], DefaultBits),
              !.i = f.i + 1,
              !.k = IF f.k = Len(f.key) THEN 1 ELSE f.k + 1]

OnlyThreads ==
    UNCHANGED <<pc, op, arg, data, key, result, roundtrip, x, frame, urandom, order>>

\* Thread t calls munge(payload): key = os.urandom(4), then the transform starts.
T_munge_call(t) ==
    /\ threads[t].pc = "start"
    /\ \E p \in ThreadPayloads(t), k0 \in ThreadKeys :
        threads' = enter_transform([threads EXCEPT ![t].x = p, ![t].key0 = k0],
                                   t, p, k0, "munge_loop")
    /\ OnlyThreads

\* Thread t transforms one byte.
T_loop_turn(t) ==
    /\ InLoop(threads[t])
    /\ threads[t].i <= Len(threads[t].data)
    /\ threads' = [threads EXCEPT ![t] = loop_turn(@)]
    /\ OnlyThreads

\* munge returns key + data.
T_munge_return(t) ==
    /\ threads[t].pc = "munge_loop"
    /\ threads[t].i > Len(threads[t].data)
    /\ threads' = [threads EXCEPT ![t].blob = threads[t].key0 \o threads[t].data,
                                  ![t].pc = "munged"]
    /\ OnlyThreads

\* Thread t calls unmunge(blob): the transform starts on data[4:] with data[:4].
T_unmunge_call(t) ==
    /\ threads[t].pc = "munged"
    /\ threads' = enter_transform(threads, t, Suffix(threads[t].blob, KeyLen),
                                  Prefix(threads[t].blob, KeyLen), "unmunge_loop")
    /\ OnlyThreads

\* unmunge returns data.
T_unmunge_return(t) ==
    /\ threads[t].pc = "unmunge_loop"
    /\ threads[t].i > Len(threads[t].data)
    /\ threads' = [threads EXCEPT ![t].out = threads[t].data, ![t].pc = "done"]
    /\ OnlyThreads

ConcInit ==
    /\ pc = "idle"
    /\ op = "none"
    /\ arg = NoArg
    /\ data = <<>>
    /\ key = <<>>
    /\ result = NoResult
    /\ roundtrip = FALSE
    /\ x = <<>>
    /\ frame = NoFrame
    /\ urandom = <<>>
    /\ order = <<>>
    /\ threads = [t \in Threads |-> NewThread]

ConcNext ==
    \E t \in Threads :
        \/ T_munge_call(t)
        \/ T_loop_turn(t)
        \/ T_munge_return(t)
        \/ T_unmunge_call(t)
        \/ T_unmunge_return(t)

ConcSpec == ConcInit /\ [][ConcNext]_vars

\* ================================================================ claims

\* C1: for every non-empty payload x and every 4-byte key the entropy source
\* returns, unmunge(munge(x)) returns the bytes x held when munge was called.
C1_RoundTrip ==
    (op = "unmunge" /\ roundtrip) => (result.kind = "ok" /\ result.val = x)

\* A round trip of a payload longer than the key, whose munged form differs
\* from the payload.
C1_Witness ==
    /\ op = "unmunge"
    /\ roundtrip
    /\ Len(x) > KeyLen
    /\ Suffix(arg.data, KeyLen) # x
    /\ result.val = x

SingleByteOps == {"xor", "rolling_xor", "rotating_xor"}
MultiByteOps == {"multi_byte_xor", "multi_byte_rolling_xor", "multi_byte_rotating_xor"}

\* The call is one the transforms must reject.
InvalidTransformCall ==
    \/ op \in SingleByteOps /\ (Len(arg.data) = 0 \/ arg.ikey \notin Byte)
    \/ op \in MultiByteOps /\ (Len(arg.data) = 0 \/ Len(arg.key) = 0)

\* C2: every transform variant given zero-length data, a zero-length key or a
\* single-byte key outside 0..255 raises MungerException and nothing else, and
\* leaves the caller's data and key as they were.
C2_InvalidInputRejected ==
    InvalidTransformCall =>
        /\ result.kind = "MungerException"
        /\ data = arg.data
        /\ op \in MultiByteOps => key = arg.key

\* C3 as stated: unmunge raises MungerException exactly for blobs of fewer than
\* 4 bytes, a blob of 4 bytes being long enough.
C3_Original ==
    op = "unmunge" =>
        /\ Len(arg.data) < KeyLen => result.kind = "MungerException"
        /\ Len(arg.data) >= KeyLen => result.kind = "ok"

\* C3 amended: unmunge raises MungerException exactly for blobs of fewer than
\* 5 bytes (the 4 key bytes and at least one payload byte are required), and
\* returns a payload of len(blob) - 4 bytes for every longer blob.
C3_UnmungeLength ==
    op = "unmunge" =>
        /\ Len(arg.data) < KeyLen + 1 => result.kind = "MungerException"
        /\ Len(arg.data) >= KeyLen + 1 =>
            result.kind = "ok" /\ Len(result.val) = Len(arg.data) - KeyLen

\* A blob of exactly 4 bytes is rejected.
C3_Witness ==
    /\ op = "unmunge"
    /\ Len(arg.data) = KeyLen
    /\ result.kind = "MungerException"

\* What is left of the alphabet once the exclusion set is taken out.
EffectiveAlphabet == Range(arg.sequence) \ arg.avoid

\* C4: sample fails with the invalid-input error, for every requested length,
\* whenever set(alphabet) - set(avoid) is empty.
C4_ExhaustedAlphabetRejected ==
    (op = "sample" /\ EffectiveAlphabet = {}) => result.kind = "MungerException"

\* C5: Random.bytes with length > 0 and an avoid set of all 256 byte values ends
\* by failing with the invalid-input error instead of looping for ever.
C5_BytesFailsWhenAllAvoided ==
    (op = "bytes" /\ pc = "bytes" /\ frame.length > 0 /\ frame.avoid = Byte)
        ~> (pc = "idle" /\ result.kind = "MungerException")

\* C6: when set(alphabet) - set(avoid) is not empty, sample returns exactly
\* `length` bytes, each a member of set(alphabet) - set(avoid).
C6_SampleContainment ==
    (op = "sample" /\ EffectiveAlphabet # {}) =>
        /\ result.kind = "ok"
        /\ Len(result.val) = arg.length
        /\ Range(result.val) \subseteq EffectiveAlphabet

\* A sample of two or more bytes from an alphabet that lost a byte to avoid.
C6_Witness ==
    /\ op = "sample"
    /\ Range(arg.sequence) \cap arg.avoid # {}
    /\ EffectiveAlphabet # {}
    /\ arg.length >= 2
    /\ Len(result.val) = arg.length

HexChars == (48..57) \cup (65..70)
RoundUpEven(n) == n + (n % 2)

\* C7 as stated: hex(n, decodable=True) returns hex characters, an even number
\* of them, at least 2 and equal to n rounded up to the nearest even number;
\* hex(n, decodable=False) returns exactly n.
C7_Original ==
    op = "hex" =>
        /\ result.kind = "ok"
        /\ Range(result.val) \subseteq HexChars
        /\ IF arg.decodable
           THEN /\ Len(result.val) % 2 = 0
                /\ Len(result.val) >= 2
                /\ Len(result.val) = RoundUpEven(arg.length)
           ELSE Len(result.val) = arg.length

\* C7 amended: the length of hex(n, decodable=True) is even, at least 2, and
\* equal to n rounded up to the nearest even number for n >= 1 and to 2 for
\* n = 0; the characters are 0-9 and A-F; hex(n, decodable=False) returns
\* exactly n of them.
C7_HexLength ==
    op = "hex" =>
        /\ result.kind = "ok"
        /\ Range(result.val) \subseteq HexChars
        /\ IF arg.decodable
           THEN /\ Len(result.val) % 2 = 0
                /\ Len(result.val) >= 2
                /\ Len(result.val) =
                       IF arg.length = 0 THEN 2 ELSE RoundUpEven(arg.length)
           ELSE Len(result.val) = arg.length

\* hex(0, decodable=True) returned two characters.
C7_Witness ==
    /\ op = "hex"
    /\ arg.decodable
    /\ arg.length = 0
    /\ Len(result.val) = 2

\* Standard base64 decoding: characters outside the alphabet (the newline)
\* are skipped, four characters give three bytes, '=' marks a short group.
IsB64Char(c) == \E v \in 0..63 : B64Char(v) = c
B64Value(c) == CHOOSE v \in 0..63 : B64Char(v) = c

RECURSIVE b64_decode_groups(_)
b64_decode_groups(s) ==
    IF Len(s) < 4 THEN <<>>
    ELSE LET v(i) == IF s[i] = 61 THEN 0 ELSE B64Value(s[i])
             n == v(1) * 262144 + v(2) * 4096 + v(3) * 64 + v(4)
             all == <<n \div 65536, (n \div 256) % 256, n % 256>>
             k == IF s[3] = 61 THEN 1 ELSE IF s[4] = 61 THEN 2 ELSE 3
         IN  SubSeq(all, 1, k) \o b64_decode_groups(SubSeq(s, 5, Len(s)))

a2b_base64(s) == b64_decode_groups(SelectSeq(s, LAMBDA c : IsB64Char(c) \/ c = 61))

\* A finished base64(length, decodable=True) call.
Base64Done == op = "base64" /\ arg.decodable /\ pc = "idle"

\* C8 as stated: the value base64(length, decodable=True) returns decodes to at
\* least `length` bytes.
C8_Original ==
    Base64Done => Len(a2b_base64(result.val)) >= arg.length

\* C8 amended: the value decodes to exactly ceil(length * 5/6) bytes, the random
\* bytes that were encoded; that is at least `length` only for length <= 5
\* (length 10 decodes to 9 bytes).
C8_DecodedLength ==
    Base64Done =>
        LET dec == a2b_base64(result.val)
        IN  /\ result.kind = "ok"
            /\ dec = frame.ret
            /\ 6 * Len(dec) >= 5 * arg.length
            /\ 6 * Len(dec) < 5 * arg.length + 6
            /\ Len(dec) >= arg.length <=> arg.length <= 5

\* base64(10) decoded to 9 bytes.
C8_Witness ==
    /\ Base64Done
    /\ arg.length = 10
    /\ Len(a2b_base64(result.val)) = 9

\* C9: base64(n, decodable=True) encodes exactly ceil(5n/6) random bytes, and
\* the padded encoding (four characters per started group of three bytes, ahead
\* of the newline b2a_base64 appends) has at least n characters.
C9_EncodedLength ==
    Base64Done =>
        LET m == Len(frame.ret)
            n == arg.length
            padded == Len(result.val) - 1
        IN  /\ result.kind = "ok"
            /\ 6 * m >= 5 * n
            /\ 6 * m < 5 * n + 6
            /\ padded = 4 * ((m + 2) \div 3)
            /\ padded % 4 = 0
            /\ padded >= n
            /\ result.val[Len(result.val)] = 10

\* base64(10): 9 random bytes, 12 characters and the newline.
C9_Witness ==
    /\ Base64Done
    /\ arg.length = 10
    /\ Len(frame.ret) = 9
    /\ Len(result.val) = 13

\* The rolling XOR of the specification: the seed key masks the first byte and
\* each later byte is masked by the plaintext byte before it.
RollingExpected(d, k) ==
    [i \in 1..Len(d) |-> Xor(d[i], IF i = 1 THEN k ELSE d[i - 1])]

\* C10: rolling_xor on non-empty data with a key in 0..255 returns a buffer of
\* the same length with out[0] = in[0] XOR key and out[i] = in[i] XOR in[i-1].
C10_RollingXor ==
    (op = "rolling_xor" /\ Len(arg.data) > 0 /\ arg.ikey \in Byte) =>
        /\ result.kind = "ok"
        /\ result.val = RollingExpected(arg.data, arg.ikey)

\* Bit j (0 = least significant) of v.
BitOf(v, j) == (v \div Pow2(j)) % 2

RECURSIVE RotR8From(_, _, _)
\* Right rotation of the 8-bit value v by b, bit by bit: bit j of the result
\* is bit (j + b) mod 8 of v.  RotR8From sums the bits j..7.
RotR8From(v, b, j) ==
    IF j > 7 THEN 0
    ELSE BitOf(v, (j + b) % 8) * Pow2(j) + RotR8From(v, b, j + 1)

RECURSIVE RotatingKey(_, _, _)
\* k_i of the schedule k_0 = key, k_{i+1} = rotate_right_8bit(k_i, bits).
RotatingKey(k, bits, i) ==
    IF i = 0 THEN k ELSE RotR8From(RotatingKey(k, bits, i - 1), bits, 0)

\* C11: rotating_xor with a key in 0..255 and 0 < bits < 8 returns
\* out[i] = in[i] XOR k_i with k_0 = key and k_{i+1} the right rotation of k_i
\* by bits; every k_i is in 0..255; and 00 00 00 under key 00000111, bits 3
\* gives 00000111, 11100000, 00011100.
C11_RotatingXor ==
    (op = "rotating_xor" /\ Len(arg.data) > 0 /\ arg.ikey \in Byte
        /\ arg.bits \in 1..7) =>
        /\ result.kind = "ok"
        /\ Len(result.val) = Len(arg.data)
        /\ \A i \in 1..Len(arg.data) :
            /\ RotatingKey(arg.ikey, arg.bits, i - 1) \in Byte
            /\ result.val[i] =
                   Xor(arg.data[i], RotatingKey(arg.ikey, arg.bits, i - 1))
        /\ (arg.data = <<0, 0, 0>> /\ arg.ikey = 7 /\ arg.bits = 3) =>
               result.val = <<7, 224, 28>>

\* The fixed vector of the specification was computed.
C11_Witness ==
    /\ op = "rotating_xor"
    /\ arg.data = <<0, 0, 0>>
    /\ arg.ikey = 7
    /\ arg.bits = 3
    /\ result.val = <<7, 224, 28>>

\* The key byte that masks byte m (1-based) of a call whose key was key0: slot
\* ((m-1) mod 4) of the key, rotated once for each earlier use of that slot.
MaskOf(key0, m) ==
    RotatingKey(key0[((m - 1) % KeyLen) + 1], DefaultBits, (m - 1) \div KeyLen)

\* How often slot j (1-based) of the key was used by the first n bytes.
UsesOf(j, n) == Cardinality({m \in 1..n : ((m - 1) % KeyLen) + 1 = j})

\* Thread locals f hold what the thread's own payload and key, and nothing
\* else, determine: the bytes before i are transformed, the others are not,
\* and every key slot was rotated once per use by this call.
OwnLocalsOnly(f) ==
    InLoop(f) =>
        /\ Len(f.key) = KeyLen
        /\ \A j \in 1..KeyLen :
            f.key[j] = RotatingKey(f.key0[j], DefaultBits, UsesOf(j, f.i - 1))
        /\ Len(f.data) = Len(f.x)
        /\ \A m \in 1..Len(f.x) :
            f.data[m] =
                IF (f.pc = "munge_loop") <=> (m < f.i)
                THEN Xor(f.x[m], MaskOf(f.key0, m))
                ELSE f.x[m]

\* C12: concurrent munge / unmunge round trips on distinct payloads through the
\* shared Munger never interfere, under every interleaving of their per-byte
\* steps: each call works on its own key and buffer only, no call fails, and
\* every round trip returns its own payload.
C12_NoInterference ==
    \A t \in DOMAIN threads :
        /\ threads[t].pc # "raised"
        /\ OwnLocalsOnly(threads[t])
        /\ threads[t].pc = "munged" =>
            threads[t].blob =
                threads[t].key0 \o [m \in 1..Len(threads[t].x) |->
                                      Xor(threads[t].x[m], MaskOf(threads[t].key0, m))]
        /\ threads[t].pc = "done" => threads[t].out = threads[t].x

\* Thread 1 finished its round trip with its own payload while thread 2, which
\* drew another key, is in the middle of unmunge.
C12_Witness ==
    /\ DOMAIN threads = Threads
    /\ threads[1].pc = "done"
    /\ threads[1].out = threads[1].x
    /\ Len(threads[1].x) = 2
    /\ threads[2].pc = "unmunge_loop"
    /\ threads[2].i = 2
    /\ threads[2].key0 # threads[1].key0

\* C13: after multi_byte_rolling_xor or multi_byte_rotating_xor returns, the
\* key object the caller passed (bytes or bytearray) holds the bytes it held
\* before the call, and multi_byte_rotating_xor applied twice with the same key
\* object returns the original data.
C13_KeyEvolutionLocal ==
    /\ (op \in {"multi_byte_rolling_xor", "multi_byte_rotating_xor",
                "multi_byte_rotating_xor_again"} /\ result.kind = "ok") =>
           key = arg.key
    /\ op = "multi_byte_rotating_xor_again" =>
           result.kind = "ok" /\ result.val = x

====
